---- MODULE Spec2Model ----
(***************************************************************************)
(* The collision core of SMASH: Action (action.cc) and ScatterActionMulti  *)
(* (scatteractionmulti.cc) acting on the shared particle collection.       *)
(*                                                                         *)
(* Four-vectors are pairs <<x0, x1>> of integers (time/energy component    *)
(* and one spatial component).  A particle made from a bare species, whose *)
(* momentum or position was never assigned, carries the marker Unassigned. *)
(***************************************************************************)
EXTENDS Integers, Sequences, FiniteSets, TLC

VARIABLES
  particles,   \* the shared particle collection (Particles): a set of records
  id_max,      \* highest particle id handed out by the collection
  act,         \* act[a]: the fields of action object a
  last,        \* the operation that ran last, its inputs and its outcome
  cursor,      \* position of the batch driver in the fixed commit order
  angles       \* the fields of an Angles object

vars == <<particles, id_max, act, last, cursor, angles>>

----------------------------------------------------------------------------
(* Bounds of the model *)

MaxProcessId == 1    \* regular process ids are 0..MaxProcessId
MaxChannels == 2     \* branches a ScatterActionMulti may collect
MaxWeight == 2       \* branch weights are 0..MaxWeight
DenMax == 2          \* phase-space densities are k/DenMax, k in 0..DenMax
MaxOut == 2          \* outgoing particles of the actions the Pauli veto scans
MaxIncoming == 4     \* incoming particles of an action offered for fusion
MaxEnergy == 5       \* energy of the first incoming particle is 0..MaxEnergy
MaxMass == 3         \* masses handed to sample_angles are 1 and MaxMass
MaxAngle == 5        \* angles handed to set_phi / set_theta are -MaxAngle..MaxAngle
MaxCos == 3          \* cosines handed to set_costheta are -MaxCos..MaxCos

\* the action objects prepared side by side
ActionIds == {1, 2}

----------------------------------------------------------------------------
(* Species registry (external collaborator): the properties the core reads *)

Species == {"pi+", "pi-", "pi0", "p", "n", "omega"}

IsBaryon(t) == t \in {"p", "n"}

IsPion(t) == t \in {"pi+", "pi-", "pi0"}

Charge(t) == CASE t = "pi+" -> 1 [] t = "pi-" -> 0 - 1 [] t = "p" -> 1 [] OTHER -> 0

BaryonNumber(t) == IF IsBaryon(t) THEN 1 ELSE 0

ProcessTypes ==
  {"None", "Elastic", "Wall", "TwoToOne", "TwoToTwo", "StringSoft", "StringHard",
   "MultiParticleThreePionsToOmega"}

\* the process id that tags photon production (constants.h); it lies outside
\* the regular ids
ID_PROCESS_PHOTON == MaxProcessId + 1

ProcessIds == 0..ID_PROCESS_PHOTON

----------------------------------------------------------------------------
(* Four-vectors *)

Unassigned == << >>

Zero4 == <<0, 0>>

Val4(v) == IF v = Unassigned THEN Zero4 ELSE v

Add4(u, v) == <<u[1] + v[1], u[2] + v[2]>>

RECURSIVE SumMomenta(_)
SumMomenta(plist) ==
  IF plist = << >> THEN Zero4
  ELSE Add4(Val4(Head(plist).mom), SumMomenta(Tail(plist)))

RECURSIVE SumPositions(_)
SumPositions(plist) ==
  IF plist = << >> THEN Zero4
  ELSE Add4(Val4(Head(plist).pos), SumPositions(Tail(plist)))

RECURSIVE TotalCharge(_)
TotalCharge(plist) ==
  IF plist = << >> THEN 0
  ELSE Charge(Head(plist).type) + TotalCharge(Tail(plist))

RECURSIVE TotalBaryonNumber(_)
TotalBaryonNumber(plist) ==
  IF plist = << >> THEN 0
  ELSE BaryonNumber(Head(plist).type) + TotalBaryonNumber(Tail(plist))

\* largest r with r*r <= n
Isqrt(n) == CHOOSE r \in 0..n : r * r <= n /\ (r + 1) * (r + 1) > n

\* FourVector::abs: the invariant mass sqrt(x0^2 - x1^2)
Abs4(v) == LET s == v[1] * v[1] - v[2] * v[2] IN IF s > 0 THEN Isqrt(s) ELSE 0

----------------------------------------------------------------------------
(* Particle records *)

NoHistory ==
  [collisions_per_particle |-> 0, id_process |-> 0, process_type |-> "None",
   time_of_origin |-> 0, parents |-> << >>]

\* ParticleData(type): a bare particle of a species, nothing assigned yet
BareParticle(t) ==
  [id |-> 0 - 1, type |-> t, mom |-> Unassigned, pos |-> Unassigned,
   hist |-> NoHistory]

Particle(i, t, m, x) ==
  [id |-> i, type |-> t, mom |-> m, pos |-> x, hist |-> NoHistory]

IdsOf(plist) == {plist[i].id : i \in DOMAIN plist}

KinematicallyComplete(plist) ==
  \A i \in DOMAIN plist : plist[i].mom # Unassigned /\ plist[i].pos # Unassigned

----------------------------------------------------------------------------
(* The shared particle collection (Particles) *)

\* Particles::is_valid(copy): the copy still matches an entry of the
\* collection, identity and state
ParticlesIsValid(ps, p) == p \in ps

\* Particles::lookup(copy): the canonical entry with the copy's identity
ParticlesLookup(ps, p) == CHOOSE q \in ps : q.id = p.id

\* new_state after the commit: what the collection handed back
UpdatedOutgoing(idm, old, new, do_replace) ==
  IF do_replace
  THEN [i \in DOMAIN new |-> [new[i] EXCEPT !.id = idm + i]]
  ELSE [i \in DOMAIN new |->
          IF i \in DOMAIN old THEN [new[i] EXCEPT !.id = old[i].id] ELSE new[i]]

\* Particles::update(old_state, new_state, do_replace): with do_replace the
\* old identities are removed and the new particles inserted under fresh
\* ids; without it the entries of the old identities take the new state
ParticlesUpdate(ps, idm, old, new, do_replace) ==
  LET out == UpdatedOutgoing(idm, old, new, do_replace) IN
  IF do_replace
  THEN [particles |-> {q \in ps : q.id \notin IdsOf(old)}
                        \cup {out[i] : i \in DOMAIN out},
        id_max |-> idm + Len(new),
        outgoing |-> out]
  ELSE [particles |->
          {q \in ps : q.id \notin IdsOf(old)}
            \cup {out[i] : i \in {j \in DOMAIN old :
                                    j \in DOMAIN out
                                    /\ \E q \in ps : q.id = old[j].id}},
        id_max |-> idm,
        outgoing |-> out]

----------------------------------------------------------------------------
(* Errors: the exception (or failed assertion) an operation ends in *)

NoError == [kind |-> "none", what |-> << >>]

AssertionFailed(cond) == [kind |-> "assert", what |-> <<cond>>]

RuntimeError(msg) == [kind |-> "std::runtime_error", what |-> msg]

InvalidScatterActionMulti(msg) ==
  [kind |-> "InvalidScatterActionMulti", what |-> msg]

InvalidResonanceFormation(msg) ==
  [kind |-> "InvalidResonanceFormation", what |-> msg]

\* reading through the null branch pointer: the run is killed
NullDereference == [kind |-> "SIGSEGV", what |-> << >>]

----------------------------------------------------------------------------
(* Action: construction and the read-only queries *)

NoWeight == 0 - 1

\* Action::Action(in_part, time) and ScatterActionMulti::ScatterActionMulti;
\* pot, ub and ui3 tell whether the potentials and the two lattices are
\* attached.  final_state and performed follow the lifecycle: how the
\* latest generate_final_state call ended ("none", "generated", "failed"),
\* and whether perform has committed the action
NewAction(cls, in_part, time, pot, ub, ui3) ==
  [cls |-> cls,
   incoming_particles |-> in_part,
   outgoing_particles |-> << >>,
   time_of_execution |-> time + in_part[1].pos[1],
   process_type |-> "None",
   pot |-> pot, UB_lat |-> ub, UI3_lat |-> ui3,
   reaction_channels |-> << >>,
   total_probability |-> 0,
   partial_probability |-> NoWeight,
   final_state |-> "none",
   performed |-> FALSE]

\* is_valid that is content with one surviving incoming particle
ActionIsValidAnyOf(A, ps) ==
  \E i \in DOMAIN A.incoming_particles :
    ParticlesIsValid(ps, A.incoming_particles[i])

\* Action::is_valid
ActionIsValid(A, ps) ==
  \A i \in DOMAIN A.incoming_particles :
    ParticlesIsValid(ps, A.incoming_particles[i])

\* PauliBlocker::phasespace_dens is external: dens[i] is the density it
\* reports for outgoing particle i, draws[k] the k-th value Random::uniform
\* hands out, both in units of 1/DenMax
RECURSIVE PauliScan(_, _, _, _, _)
PauliScan(out, dens, draws, i, k) ==
  IF i > Len(out) THEN [blocked |-> FALSE, queried |-> << >>]
  ELSE IF IsBaryon(out[i].type)
  THEN IF dens[i] > draws[k + 1]
       THEN [blocked |-> TRUE, queried |-> <<i>>]
       ELSE LET r == PauliScan(out, dens, draws, i + 1, k + 1) IN
            [blocked |-> r.blocked, queried |-> <<i>> \o r.queried]
  ELSE PauliScan(out, dens, draws, i + 1, k)

\* is_pauli_blocked without the exemption of wall crossings
ActionIsPauliBlockedAlsoWall(A, dens, draws) ==
  PauliScan(A.outgoing_particles, dens, draws, 1, 0)

\* Action::is_pauli_blocked
ActionIsPauliBlocked(A, dens, draws) ==
  IF A.process_type = "Wall" THEN [blocked |-> FALSE, queried |-> << >>]
  ELSE PauliScan(A.outgoing_particles, dens, draws, 1, 0)

\* Action::update_incoming
ActionUpdateIncoming(A, ps) ==
  [A EXCEPT !.incoming_particles =
     [i \in DOMAIN @ |-> ParticlesLookup(ps, @[i])]]

\* Action::get_interaction_point
GetInteractionPoint(A) ==
  LET s == SumPositions(A.incoming_particles)
      n == Len(A.incoming_particles)
  IN <<s[1] \div n, s[2] \div n>>

\* the lattices (external): the points they cover and the field they hold
LatticeExtent == 0..8

UBField(r) == r + 1

UI3Field(r) == 0 - (r + 2)

\* Action::get_potential_at_interaction_point
GetPotentialAtInteractionPoint(A) ==
  LET r == GetInteractionPoint(A)[2]
      UB_exist == IF A.UB_lat THEN r \in LatticeExtent ELSE FALSE
      UI3_exist == IF A.UI3_lat THEN r \in LatticeExtent ELSE FALSE
  IN <<IF UB_exist THEN UBField(r) ELSE 0, IF UI3_exist THEN UI3Field(r) ELSE 0>>

\* Potentials::force_scale and ParticleType::isospin3_rel (external)
ForceScale(t) == IF IsBaryon(t) THEN <<1, 1>> ELSE <<0, 0>>

Isospin3Rel(t) ==
  CASE t \in {"pi+", "p"} -> 1 [] t \in {"pi-", "n"} -> 0 - 1 [] OTHER -> 0

\* the force scales summed over a list of species
RECURSIVE ScaleSum(_, _)
ScaleSum(types, pot) ==
  IF types = << >> THEN <<0, 0>>
  ELSE LET scale == IF pot THEN ForceScale(Head(types)) ELSE <<0, 0>>
           rest == ScaleSum(Tail(types), pot)
       IN <<scale[1] + rest[1],
            scale[2] * Isospin3Rel(Head(types)) + rest[2]>>

TypesOf(plist) == [i \in DOMAIN plist |-> plist[i].type]

\* Action::sqrt_s: invariant mass of the incoming particles
SqrtS(A) == Abs4(SumMomenta(A.incoming_particles))

\* kinetic_energy_cms(potentials, p_out_types) that takes the force scales
\* whether or not a Potentials object is attached
KineticEnergyCmsWithAnyScales(A, potentials, p_out_types) ==
  LET sin == ScaleSum(TypesOf(A.incoming_particles), TRUE)
      sout == ScaleSum(p_out_types, TRUE)
      B_pot_diff == potentials[1] * (sin[1] - sout[1])
      I3_pot_diff == potentials[2] * (sin[2] - sout[2])
  IN SqrtS(A) + B_pot_diff + I3_pot_diff

\* Action::kinetic_energy_cms(potentials, p_out_types)
KineticEnergyCmsWith(A, potentials, p_out_types) ==
  LET sin == ScaleSum(TypesOf(A.incoming_particles), A.pot)
      sout == ScaleSum(p_out_types, A.pot)
      B_pot_diff == potentials[1] * (sin[1] - sout[1])
      I3_pot_diff == potentials[2] * (sin[2] - sout[2])
  IN SqrtS(A) + B_pot_diff + I3_pot_diff

\* Action::kinetic_energy_cms()
KineticEnergyCms(A) ==
  LET sin == ScaleSum(TypesOf(A.incoming_particles), A.pot)
      sout == ScaleSum(TypesOf(A.outgoing_particles), A.pot)
      potentials == GetPotentialAtInteractionPoint(A)
      B_pot_diff == potentials[1] * (sin[1] - sout[1])
      I3_pot_diff == potentials[2] * (sin[2] - sout[2])
  IN SqrtS(A) + B_pot_diff + I3_pot_diff

----------------------------------------------------------------------------
(* Action: conservation check and commit *)

\* QuantumNumbers(list): the conserved totals of a particle list
QuantumNumbers(plist) ==
  [momentum |-> SumMomenta(plist),
   charge |-> TotalCharge(plist),
   baryon_number |-> TotalBaryonNumber(plist)]

\* check_conservation that lets every mismatch but the soft string pass as
\* fatal, without telling the photon process apart
CheckConservationNoPhoton(A, id_process) ==
  IF QuantumNumbers(A.incoming_particles) # QuantumNumbers(A.outgoing_particles)
  THEN IF A.process_type = "StringSoft"
       THEN [err |-> NoError, logged |-> TRUE]
       ELSE [err |-> RuntimeError(<<"Conservation laws violated in process ",
                                    id_process>>),
             logged |-> TRUE]
  ELSE [err |-> NoError, logged |-> FALSE]

\* Action::check_conservation: the error it ends in, and whether it logged
\* a deviation
CheckConservation(A, id_process) ==
  IF QuantumNumbers(A.incoming_particles) # QuantumNumbers(A.outgoing_particles)
  THEN IF A.process_type = "StringSoft" \/ A.process_type = "StringHard"
       THEN [err |-> NoError, logged |-> TRUE]
       ELSE IF id_process = ID_PROCESS_PHOTON
       THEN [err |-> RuntimeError(<<"Conservation laws violated in photon process">>),
             logged |-> TRUE]
       ELSE [err |-> RuntimeError(<<"Conservation laws violated in process ",
                                    id_process>>),
             logged |-> TRUE]
  ELSE [err |-> NoError, logged |-> FALSE]

\* the history perform stamps on the outgoing particles
StampHistory(A, id_process) ==
  [i \in DOMAIN A.outgoing_particles |->
     IF A.process_type # "Wall"
     THEN [A.outgoing_particles[i] EXCEPT !.hist =
             [collisions_per_particle |-> @.collisions_per_particle + 1,
              id_process |-> id_process,
              process_type |-> A.process_type,
              time_of_origin |-> A.time_of_execution,
              parents |-> [j \in DOMAIN A.incoming_particles |->
                             A.incoming_particles[j].id]]]
     ELSE A.outgoing_particles[i]]

\* a commit that keeps identities for elastic collisions only
DoReplaceButElastic(ptype) == ptype # "Elastic"

\* whether perform removes the incoming particles and inserts new ones
DoReplace(ptype) == (ptype # "Elastic") /\ (ptype # "Wall")

\* a check that looks at the baryon lattice only
ChecksConservationBaryonOnly(A) == ~A.UB_lat

\* whether perform runs the conservation check
ChecksConservation(A) == (~A.UB_lat) /\ (~A.UI3_lat)

\* perform without its precondition
ActionPerformNoAssert(A, ps, idm, id_process) ==
  LET stamped == [A EXCEPT !.outgoing_particles = StampHistory(A, id_process)]
      upd == ParticlesUpdate(ps, idm, stamped.incoming_particles,
                             stamped.outgoing_particles,
                             DoReplace(stamped.process_type))
      done == [stamped EXCEPT !.outgoing_particles = upd.outgoing,
                              !.performed = TRUE]
      checked == ChecksConservation(done)
  IN [err |-> IF checked THEN CheckConservation(done, id_process).err
              ELSE NoError,
      act |-> done, particles |-> upd.particles, id_max |-> upd.id_max,
      committed |-> TRUE, checked |-> checked]

\* perform that tests its precondition after the commit
ActionPerformLateAssert(A, ps, idm, id_process) ==
  LET o == ActionPerformNoAssert(A, ps, idm, id_process) IN
  IF id_process = 0
  THEN [o EXCEPT !.err = AssertionFailed("id_process != 0"), !.checked = FALSE]
  ELSE o

\* Action::perform(particles, id_process): the collection and the action
\* after the call, the error it ends in, and whether the commit and the
\* conservation check ran
ActionPerform(A, ps, idm, id_process) ==
  IF id_process = 0
  THEN [err |-> AssertionFailed("id_process != 0"), act |-> A,
        particles |-> ps, id_max |-> idm,
        committed |-> FALSE, checked |-> FALSE]
  ELSE LET stamped == [A EXCEPT !.outgoing_particles = StampHistory(A, id_process)]
           upd == ParticlesUpdate(ps, idm, stamped.incoming_particles,
                                  stamped.outgoing_particles,
                                  DoReplace(stamped.process_type))
           done == [stamped EXCEPT !.outgoing_particles = upd.outgoing,
                                   !.performed = TRUE]
           checked == ChecksConservation(done)
       IN [err |-> IF checked THEN CheckConservation(done, id_process).err
                   ELSE NoError,
           act |-> done, particles |-> upd.particles, id_max |-> upd.id_max,
           committed |-> TRUE, checked |-> checked]

----------------------------------------------------------------------------
(* Action: two-body kinematics *)

\* ParticleType::mass, min_mass_kinematic and is_stable (external), in units
\* of the pion mass
Mass(t) == CASE IsPion(t) -> 1 [] IsBaryon(t) -> 7 [] OTHER -> 6

IsStable(t) == t # "omega"

MinMassKinematic(t) == IF IsStable(t) THEN Mass(t) ELSE 3

\* the mass pairs sample_masses can return without an error: pole masses,
\* with the mass of an unstable species drawn by sample_resonance_mass(es)
\* between its kinematic minimum and what the energy leaves
SampledMasses(A) ==
  LET t_a == A.outgoing_particles[1].type
      t_b == A.outgoing_particles[2].type
      cms_kin_energy == KineticEnergyCms(A)
  IN IF (~IsStable(t_a)) /\ IsStable(t_b)
     THEN {<<m, Mass(t_b)>> : m \in MinMassKinematic(t_a)..(cms_kin_energy - Mass(t_b))}
     ELSE IF (~IsStable(t_b)) /\ IsStable(t_a)
     THEN {<<Mass(t_a), m>> : m \in MinMassKinematic(t_b)..(cms_kin_energy - Mass(t_a))}
     ELSE IF (~IsStable(t_a)) /\ (~IsStable(t_b))
     THEN {<<m, n>> : m \in MinMassKinematic(t_a)..cms_kin_energy,
                      n \in MinMassKinematic(t_b)..cms_kin_energy}
            \cap {mn \in (0..cms_kin_energy) \X (0..cms_kin_energy) :
                    mn[1] + mn[2] <= cms_kin_energy}
     ELSE {<<Mass(t_a), Mass(t_b)>>}

\* sample_masses that also refuses an energy exactly at the threshold
SampleMassesErrorAtThreshold(A) ==
  LET t_a == A.outgoing_particles[1].type
      t_b == A.outgoing_particles[2].type
      cms_kin_energy == KineticEnergyCms(A)
  IN IF cms_kin_energy <= MinMassKinematic(t_a) + MinMassKinematic(t_b)
     THEN InvalidResonanceFormation(<<"not enough energy", cms_kin_energy,
                                      MinMassKinematic(t_a), MinMassKinematic(t_b)>>)
     ELSE NoError

\* Action::sample_masses: the error it throws, if any
SampleMassesError(A) ==
  LET t_a == A.outgoing_particles[1].type
      t_b == A.outgoing_particles[2].type
      cms_kin_energy == KineticEnergyCms(A)
  IN IF cms_kin_energy < MinMassKinematic(t_a) + MinMassKinematic(t_b)
     THEN InvalidResonanceFormation(<<"not enough energy", cms_kin_energy,
                                      MinMassKinematic(t_a), MinMassKinematic(t_b)>>)
     ELSE NoError

\* pCM(sqrts, mass_a, mass_b): two-body momentum, 0 when it is not real
pCM(sqrts, mass_a, mass_b) ==
  LET num == (sqrts * sqrts - (mass_a + mass_b) * (mass_a + mass_b))
               * (sqrts * sqrts - (mass_a - mass_b) * (mass_a - mass_b))
  IN IF sqrts > 0 /\ num > 0 THEN Isqrt(num) \div (2 * sqrts) ELSE 0

\* ParticleData::set_4momentum(mass, three-momentum)
Set4Momentum(p, mass, mom3) ==
  [p EXCEPT !.mom = <<Isqrt(mass * mass + mom3 * mom3), mom3>>]

\* sample_angles that gives both particles the same three-momentum
SampleAnglesSameSign(A, masses, costheta) ==
  LET pcm == pCM(KineticEnergyCms(A), masses[1], masses[2]) IN
  [A EXCEPT !.outgoing_particles =
     [@ EXCEPT ![1] = Set4Momentum(@, masses[1], costheta * pcm),
               ![2] = Set4Momentum(@, masses[2], costheta * pcm)]]

\* sample_angles logs a warning when the momentum is not positive
SampleAnglesWarns(A, masses) ==
  ~(pCM(KineticEnergyCms(A), masses[1], masses[2]) > 0)

\* Action::sample_angles; costheta is the direction Angles drew
SampleAngles(A, masses, costheta) ==
  LET pcm == pCM(KineticEnergyCms(A), masses[1], masses[2]) IN
  [A EXCEPT !.outgoing_particles =
     [@ EXCEPT ![1] = Set4Momentum(@, masses[1], costheta * pcm),
               ![2] = Set4Momentum(@, masses[2], (0 - costheta) * pcm)]]

\* Action::sample_2body_phasespace: the outcomes it can end in
Sample2BodyPhasespace(A) ==
  IF Len(A.outgoing_particles) # 2
  THEN {[err |-> AssertionFailed("outgoing_particles_.size() == 2"), act |-> A]}
  ELSE IF SampleMassesError(A) # NoError
  THEN {[err |-> SampleMassesError(A), act |-> A]}
  ELSE {[err |-> NoError, act |-> SampleAngles(A, masses, costheta)] :
          masses \in SampledMasses(A), costheta \in {0 - 1, 1}}

----------------------------------------------------------------------------
(* ScatterActionMulti *)

Branch(types, w, ptype) == [particle_types |-> types, weight |-> w, type |-> ptype]

\* add_reaction that appends the branch and leaves the total as it was
AddReactionNoTotal(A, b) ==
  [A EXCEPT !.reaction_channels = Append(@, b)]

\* ScatterActionMulti::add_reaction (add_process)
AddReaction(A, b) ==
  [A EXCEPT !.reaction_channels = Append(@, b),
            !.total_probability = @ + b.weight]

\* ScatterActionMulti::add_reactions (add_processes)
RECURSIVE AddReactions(_, _)
AddReactions(A, pv) ==
  IF pv = << >> THEN A ELSE AddReactions(AddReaction(A, Head(pv)), Tail(pv))

\* three_different_pions that compares neighbours only
ThreeDifferentPionsNeighbours(data_a, data_b, data_c) ==
  /\ IsPion(data_a.type) /\ IsPion(data_b.type) /\ IsPion(data_c.type)
  /\ data_a.type # data_b.type /\ data_b.type # data_c.type

\* ScatterActionMulti::three_different_pions
ThreeDifferentPions(data_a, data_b, data_c) ==
  /\ IsPion(data_a.type) /\ IsPion(data_b.type) /\ IsPion(data_c.type)
  /\ data_a.type # data_b.type /\ data_b.type # data_c.type
       /\ data_c.type # data_a.type

\* ScatterActionMulti::add_possible_reactions; type_omega tells whether
\* ParticleType::try_find(0x223) finds the species, prob is the value of
\* probability_three_pi_to_one
AddPossibleReactions(A, three_to_one, type_omega, prob) ==
  IF /\ three_to_one
     /\ Len(A.incoming_particles) = 3
     /\ ThreeDifferentPions(A.incoming_particles[1], A.incoming_particles[2],
                            A.incoming_particles[3])
  THEN IF type_omega
       THEN AddReaction(A, Branch(<<"omega">>, prob, "MultiParticleThreePionsToOmega"))
       ELSE A
  ELSE A

\* ScatterActionMulti::get_total_weight
GetTotalWeight(A) == A.total_probability

\* ScatterActionMulti::get_partial_weight
GetPartialWeight(A) == A.partial_probability

RECURSIVE CumulativeWeight(_, _)
CumulativeWeight(list, i) ==
  IF i = 0 THEN 0 ELSE list[i].weight + CumulativeWeight(list, i - 1)

\* choose_channel(list, total_weight): the index of the first channel whose
\* running sum exceeds the draw r from [0, total_weight); 0 (no channel)
\* when the total weight is not positive
ChooseChannel(list, total_weight, r) ==
  IF total_weight <= 0 THEN 0
  ELSE IF \E i \in DOMAIN list : CumulativeWeight(list, i) > r
  THEN CHOOSE i \in DOMAIN list :
         /\ CumulativeWeight(list, i) > r
         /\ \A j \in 1..(i - 1) : CumulativeWeight(list, j) <= r
  ELSE 0

\* the draws Random::uniform(0, total_weight) can hand to choose_channel
ChannelDraws(A) ==
  IF A.total_probability > 0 THEN 0..(A.total_probability - 1) ELSE {0}

\* Action::total_momentum_of_outgoing_particles: the combined four-momentum
\* of the incoming particles
TotalMomentumOfOutgoingParticles(A) == SumMomenta(A.incoming_particles)

\* ParticleData::boost_momentum(-P.velocity()): the momentum seen from the
\* frame in which the total momentum is P
BoostMomentum(mom, P) ==
  LET m == Abs4(P) IN
  IF m = 0 THEN <<0, 0, 0>>
  ELSE <<(P[1] * mom[1] + P[2] * mom[2]) \div m,
         (P[1] * mom[2] + P[2] * mom[1]) \div m>>

\* annihilation that gives the formed particle the total energy
AnnihilationTotalEnergy(A) ==
  IF Len(A.outgoing_particles) # 1
  THEN [err |-> InvalidScatterActionMulti(
                  <<"Annihilation: Incorrect number of particles in final state: ",
                    Len(A.outgoing_particles)>>),
        act |-> A]
  ELSE [err |-> NoError,
        act |-> [A EXCEPT !.outgoing_particles[1].mom =
                   <<TotalMomentumOfOutgoingParticles(A)[1], 0>>]]

\* annihilation that takes a final state of any size
AnnihilationAnyCount(A) ==
  [err |-> NoError,
   act |-> [A EXCEPT !.outgoing_particles =
              [i \in DOMAIN @ |->
                 [@[i] EXCEPT !.mom = <<Abs4(TotalMomentumOfOutgoingParticles(A)), 0>>]]]]

\* ScatterActionMulti::annihilation
Annihilation(A) ==
  IF Len(A.outgoing_particles) # 1
  THEN [err |-> InvalidScatterActionMulti(
                  <<"Annihilation: Incorrect number of particles in final state: ",
                    Len(A.outgoing_particles)>>),
        act |-> A]
  ELSE [err |-> NoError,
        act |-> [A EXCEPT !.outgoing_particles[1].mom =
                   <<Abs4(TotalMomentumOfOutgoingParticles(A)), 0>>]]

\* generate_final_state that boosts the outgoing particles and leaves their
\* position unset
FinishFinalStateNoPosition(A) ==
  LET sw == IF A.process_type = "MultiParticleThreePionsToOmega"
            THEN Annihilation(A)
            ELSE [err |-> InvalidScatterActionMulti(
                            <<"ScatterActionMulti::generate_final_state: Invalid process type ",
                              A.process_type>>),
                  act |-> A]
  IN IF sw.err # NoError THEN sw
     ELSE [err |-> NoError,
           act |-> [sw.act EXCEPT !.outgoing_particles =
                      [i \in DOMAIN @ |->
                         [@[i] EXCEPT
                            !.mom = BoostMomentum(
                                      @, TotalMomentumOfOutgoingParticles(sw.act))]]]]

\* the part of generate_final_state after the channel is read: the switch
\* over the process type, then boost and placement of the outgoing particles
FinishFinalState(A) ==
  LET sw == IF A.process_type = "MultiParticleThreePionsToOmega"
            THEN Annihilation(A)
            ELSE [err |-> InvalidScatterActionMulti(
                            <<"ScatterActionMulti::generate_final_state: Invalid process type ",
                              A.process_type>>),
                  act |-> A]
      middle_point == GetInteractionPoint(sw.act)
  IN IF sw.err # NoError THEN sw
     ELSE [err |-> NoError,
           act |-> [sw.act EXCEPT !.outgoing_particles =
                      [i \in DOMAIN @ |->
                         [@[i] EXCEPT
                            !.mom = BoostMomentum(
                                      @, TotalMomentumOfOutgoingParticles(sw.act)),
                            !.pos = middle_point]]]]

\* what a read through the null branch pointer can yield as process type:
\* one type the switch lists and one it does not
GarbageTypes == {"MultiParticleThreePionsToOmega", "None"}

\* ScatterActionMulti::generate_final_state with the draw r: the outcomes it
\* can end in.  Without a channel the branch pointer is null and reading
\* through it is undefined: the run is killed, or the fields are filled
\* with whatever is read
GenerateFinalState(A, r) ==
  LET k == ChooseChannel(A.reaction_channels, A.total_probability, r) IN
  IF k = 0
  THEN {[err |-> NullDereference, act |-> A]}
         \cup {FinishFinalState([A EXCEPT !.process_type = t,
                                          !.outgoing_particles = << >>,
                                          !.partial_probability = w]) :
                 t \in GarbageTypes, w \in {0}}
  ELSE LET proc == A.reaction_channels[k] IN
       {FinishFinalState(
          [A EXCEPT !.process_type = proc.type,
                    !.outgoing_particles =
                      [i \in DOMAIN proc.particle_types |->
                         BareParticle(proc.particle_types[i])],
                    !.partial_probability = proc.weight])}

----------------------------------------------------------------------------
(* Angles (Angles.h).  Angles are counted in quarter turns, so that 2 pi   *)
(* is TwoPi, and cosines in units of 1/CosOne.                             *)

TwoPi == 4

CosOne == 2

\* cos of an angle given in quarter turns
Cos(theta) ==
  CASE theta % TwoPi = 0 -> CosOne
    [] theta % TwoPi = TwoPi \div 2 -> 0 - CosOne
    [] OTHER -> 0

\* the char array set_costheta throws
Thrown(msg) == [kind |-> "char*", what |-> msg]

\* Angles::Angles
NewAngles == [phi |-> 0, costheta |-> 0]

\* Angles::distribute_isotropically; u1 and u2 are the two values of
\* drand48, in [0, 1): u1 in units of 1/TwoPi, u2 in units of 1/CosOne
DistributeIsotropically(A, u1, u2) ==
  [phi |-> u1, costheta |-> (0 - CosOne) + 2 * u2]

\* Angles::set_phi
SetPhi(A, newphi) ==
  [A EXCEPT !.phi = IF newphi < 0 \/ newphi >= TwoPi
                    THEN newphi - TwoPi * (newphi \div TwoPi)
                    ELSE newphi]

\* Angles::set_costheta: the value is stored, then checked
SetCostheta(A, newcos) ==
  LET stored == [A EXCEPT !.costheta = newcos] IN
  IF stored.costheta < 0 - CosOne \/ stored.costheta > CosOne
  THEN [err |-> Thrown(<<"Wrong value for costheta (must be in [-1,1]): ",
                         stored.costheta>>),
        angles |-> stored]
  ELSE [err |-> NoError, angles |-> stored]

\* Angles::set_theta
SetTheta(A, newtheta) == SetCostheta(A, Cos(newtheta))

----------------------------------------------------------------------------
(* The inputs the model draws *)

\* the particles the collection holds when the actions are constructed
InitialParticles ==
  {Particle(1, "pi+", <<3, 1>>, <<0, 0>>),
   Particle(2, "pi-", <<3, 0 - 1>>, <<0, 6>>),
   Particle(3, "pi0", <<3, 0>>, <<0, 12>>),
   Particle(4, "p", <<8, 0>>, <<0, 6>>)}

InitialParticle(i) == CHOOSE q \in InitialParticles : q.id = i

\* whether the potentials, the baryon lattice and the isospin lattice are
\* attached to the actions
LatticeConfigs ==
  {[pot |-> FALSE, ub |-> FALSE, ui3 |-> FALSE],
   [pot |-> TRUE, ub |-> TRUE, ui3 |-> FALSE],
   [pot |-> TRUE, ub |-> FALSE, ui3 |-> TRUE]}

\* the action objects: a ScatterActionMulti of the three pions, and actions
\* of the other specializations that share a particle with it
Construct(cls, ids, time, cfg) ==
  NewAction(cls, [i \in DOMAIN ids |-> InitialParticle(ids[i])], time,
            cfg.pot, cfg.ub, cfg.ui3)

\* the branches handed to add_reaction / add_reactions
BranchChoices ==
  {Branch(<<"omega">>, 1, "MultiParticleThreePionsToOmega"),
   Branch(<<"pi0", "omega">>, 1, "MultiParticleThreePionsToOmega"),
   Branch(<<"omega">>, 1, "TwoToOne")}

\* the branch lists the rate computation has handed to the multi-particle
\* action when it enters the batch
PreparedChannels == {<< >>} \cup {<<b>> : b \in BranchChoices}

\* the same branches with every weight the rate computation may give them
WeightedBranches ==
  {Branch(b.particle_types, w, b.type) : b \in BranchChoices, w \in 0..MaxWeight}

Kick(plist) == [plist EXCEPT ![1].mom = Add4(@, <<1, 0>>)]

Exchange(plist) ==
  [i \in DOMAIN plist |-> [plist[i] EXCEPT !.mom = plist[Len(plist) + 1 - i].mom]]

Produced(t, m, x) == [BareParticle(t) EXCEPT !.mom = m, !.pos = x]

\* the final states the other specializations' generate_final_state can
\* leave in an action: the reaction type and an outgoing list, which
\* conserves the incoming totals or (Kick) does not; a two-body branch
\* leaves bare particles for sample_2body_phasespace
FinalStates(A) ==
  LET inc == A.incoming_particles
      P == SumMomenta(inc)
      x == GetInteractionPoint(A)
      fused == <<Produced(IF TotalBaryonNumber(inc) = 1 THEN "n" ELSE "omega", P, x)>>
      pair == [i \in DOMAIN inc |-> Produced(inc[i].type, inc[i].mom, x)]
  IN {[type |-> "Wall",
       out |-> [i \in DOMAIN inc |-> [inc[i] EXCEPT !.pos = Add4(@, <<0, d>>)]]] :
        d \in {0, 6}}
     \cup (IF Len(inc) < 2 THEN {}
           ELSE {[type |-> "Elastic", out |-> Exchange(inc)],
                 [type |-> "Elastic", out |-> Kick(inc)],
                 [type |-> "TwoToOne", out |-> fused],
                 [type |-> "StringSoft", out |-> Kick(Exchange(pair))],
                 [type |-> "StringHard", out |-> Kick(pair)],
                 [type |-> "TwoToTwo", out |-> <<BareParticle("n"), BareParticle("pi0")>>],
                 [type |-> "TwoToTwo", out |-> <<BareParticle("n"), BareParticle("n")>>]})

----------------------------------------------------------------------------
(* The state machine: one step per call.  An action that was performed is *)
(* not used again.                                                        *)

Called(op, a, arg, err, ret) ==
  [op |-> op, a |-> a, arg |-> arg, err |-> err, ret |-> ret]

Multi == "ScatterActionMulti"

Other == "Action"

Init ==
  /\ particles = InitialParticles
  /\ id_max = Cardinality(InitialParticles)
  /\ \E cfg \in LatticeConfigs, pv \in PreparedChannels :
       act = [a \in ActionIds |->
                IF a = 1
                THEN AddReactions(Construct(Multi, <<1, 2, 3>>, a, cfg), pv)
                ELSE Construct(Other, <<2, 4>>, a, cfg)]
  /\ last = Called("construct", 0, << >>, NoError, << >>)
  /\ cursor = 0
  /\ angles = NewAngles

CallIsValid(a) ==
  /\ ~act[a].performed
  /\ last' = Called("is_valid", a, << >>, NoError, ActionIsValid(act[a], particles))
  /\ UNCHANGED <<particles, id_max, act, cursor, angles>>

CallIsPauliBlocked(a) ==
  /\ ~act[a].performed
  /\ \E f \in {0, DenMax} :
       last' = Called("is_pauli_blocked", a, << >>, NoError,
                      ActionIsPauliBlocked(
                        act[a], [i \in DOMAIN act[a].outgoing_particles |-> f],
                        [i \in DOMAIN act[a].outgoing_particles |-> 0]).blocked)
  /\ UNCHANGED <<particles, id_max, act, cursor, angles>>

CallUpdateIncoming(a) ==
  /\ ~act[a].performed
  /\ \A i \in DOMAIN act[a].incoming_particles :
       \E q \in particles : q.id = act[a].incoming_particles[i].id
  /\ act' = [act EXCEPT ![a] = ActionUpdateIncoming(@, particles)]
  /\ last' = Called("update_incoming", a, << >>, NoError, << >>)
  /\ UNCHANGED <<particles, id_max, cursor, angles>>

CallGetInteractionPoint(a) ==
  /\ ~act[a].performed
  /\ last' = Called("get_interaction_point", a, << >>, NoError,
                    GetInteractionPoint(act[a]))
  /\ UNCHANGED <<particles, id_max, act, cursor, angles>>

CallGetPotentialAtInteractionPoint(a) ==
  /\ ~act[a].performed
  /\ last' = Called("get_potential_at_interaction_point", a, << >>, NoError,
                    GetPotentialAtInteractionPoint(act[a]))
  /\ UNCHANGED <<particles, id_max, act, cursor, angles>>

CallKineticEnergyCms(a) ==
  /\ ~act[a].performed
  /\ last' = Called("kinetic_energy_cms", a, << >>, NoError,
                    KineticEnergyCms(act[a]))
  /\ UNCHANGED <<particles, id_max, act, cursor, angles>>

CallKineticEnergyCmsWith(a) ==
  /\ ~act[a].performed
  /\ \E potentials \in {<<0, 0>>, <<2, 0 - 3>>}, p_out_types \in {<<"n", "pi0">>} :
       last' = Called("kinetic_energy_cms(potentials, p_out_types)", a,
                      <<potentials, p_out_types>>, NoError,
                      KineticEnergyCmsWith(act[a], potentials, p_out_types))
  /\ UNCHANGED <<particles, id_max, act, cursor, angles>>

CallAddReaction(a) ==
  /\ act[a].cls = Multi
  /\ ~act[a].performed
  /\ Len(act[a].reaction_channels) < MaxChannels
  /\ \E b \in WeightedBranches :
       /\ act' = [act EXCEPT ![a] = AddReaction(@, b)]
       /\ last' = Called("add_reaction", a, <<b>>, NoError, << >>)
  /\ UNCHANGED <<particles, id_max, cursor, angles>>

CallAddReactions(a) ==
  /\ act[a].cls = Multi
  /\ ~act[a].performed
  /\ \E b1 \in WeightedBranches, b2 \in WeightedBranches :
       /\ Len(act[a].reaction_channels) + 2 <= MaxChannels
       /\ act' = [act EXCEPT ![a] = AddReactions(@, <<b1, b2>>)]
       /\ last' = Called("add_reactions", a, <<b1, b2>>, NoError, << >>)
  /\ UNCHANGED <<particles, id_max, cursor, angles>>

\* the action after a generate_final_state call that ended as o
Ended(o) ==
  [o.act EXCEPT !.final_state = IF o.err = NoError THEN "generated" ELSE "failed"]

\* generate_final_state that also hands its outgoing particles to the
\* collection
CallGenerateFinalStateInserting(a) ==
  /\ act[a].cls = Multi
  /\ ~act[a].performed
  /\ \E r \in ChannelDraws(act[a]) :
       \E o \in GenerateFinalState(act[a], r) :
         /\ act' = [act EXCEPT ![a] = Ended(o)]
         /\ particles' = particles
                           \cup {o.act.outgoing_particles[i] :
                                   i \in DOMAIN o.act.outgoing_particles}
         /\ last' = Called("generate_final_state", a, <<r>>, o.err, << >>)
  /\ UNCHANGED <<id_max, cursor, angles>>

CallGenerateFinalState(a) ==
  /\ act[a].cls = Multi
  /\ ~act[a].performed
  /\ \E r \in ChannelDraws(act[a]) :
       \E o \in GenerateFinalState(act[a], r) :
         /\ act' = [act EXCEPT ![a] = Ended(o)]
         /\ last' = Called("generate_final_state", a, <<r>>, o.err, << >>)
  /\ UNCHANGED <<particles, id_max, cursor, angles>>

\* generate_final_state of the other specializations: the branch f is
\* taken; a two-body branch is completed by sample_2body_phasespace, whose
\* error passes to the caller, and placed at the interaction point
OtherGenerateFinalState(A, f) ==
  LET chosen == [A EXCEPT !.process_type = f.type, !.outgoing_particles = f.out] IN
  IF f.type = "TwoToTwo"
  THEN {IF o.err # NoError THEN o
        ELSE [err |-> NoError,
              act |-> [o.act EXCEPT !.outgoing_particles =
                         [i \in DOMAIN @ |->
                            [@[i] EXCEPT !.pos = GetInteractionPoint(o.act)]]]] :
          o \in Sample2BodyPhasespace(chosen)}
  ELSE {[err |-> NoError, act |-> chosen]}

CallSetFinalState(a) ==
  /\ act[a].cls = Other
  /\ ~act[a].performed
  /\ \E f \in FinalStates(act[a]) :
       \E o \in OtherGenerateFinalState(act[a], f) :
         /\ act' = [act EXCEPT ![a] = Ended(o)]
         /\ last' = Called("generate_final_state", a, << >>, o.err, << >>)
  /\ UNCHANGED <<particles, id_max, cursor, angles>>

CallSample2BodyPhasespace(a) ==
  /\ act[a].cls = Other
  /\ ~act[a].performed
  /\ \E o \in Sample2BodyPhasespace(act[a]) :
       /\ act' = [act EXCEPT ![a] = o.act]
       /\ last' = Called("sample_2body_phasespace", a, << >>, o.err, << >>)
  /\ UNCHANGED <<particles, id_max, cursor, angles>>

\* the in-place update pairs old and new particles by position: it is
\* reached only with lists of one length
CanCommit(A) ==
  DoReplace(A.process_type)
    \/ Len(A.outgoing_particles) = Len(A.incoming_particles)

CallPerform(a) ==
  /\ ~act[a].performed
  /\ \E id_process \in ProcessIds :
       LET o == ActionPerform(act[a], particles, id_max, id_process) IN
       /\ id_process = 0 \/ CanCommit(act[a])
       /\ act' = [act EXCEPT ![a] = o.act]
       /\ particles' = o.particles
       /\ id_max' = o.id_max
       /\ last' = Called("perform", a, <<id_process>>, o.err,
                         [committed |-> o.committed, checked |-> o.checked])
  /\ UNCHANGED <<cursor, angles>>

Next ==
  \E a \in ActionIds :
    \/ CallIsValid(a)
    \/ CallIsPauliBlocked(a)
    \/ CallUpdateIncoming(a)
    \/ CallGetInteractionPoint(a)
    \/ CallGetPotentialAtInteractionPoint(a)
    \/ CallKineticEnergyCms(a)
    \/ CallKineticEnergyCmsWith(a)
    \/ CallGenerateFinalState(a)
    \/ CallSetFinalState(a)
    \/ CallSample2BodyPhasespace(a)
    \/ CallPerform(a)

Spec == Init /\ [][Next]_vars

----------------------------------------------------------------------------
(* Claims about Action::perform and the prepare phase, checked under Spec *)

StringTypes == {"StringSoft", "StringHard"}

IdsIn(ps) == {q.id : q \in ps}

Performed == last.op = "perform" /\ last.ret.committed

\* the snapshots the conservation check of the last perform compared differ
SnapshotsDiffer ==
  QuantumNumbers(act[last.a].incoming_particles)
    # QuantumNumbers(act[last.a].outgoing_particles)

\* C1: perform called with process id 0 fails on every call, before any
\* outgoing particle's history is stamped and before the collection is
\* updated: the step leaves the action and the collection as they were.
C1_PerformZeroFails ==
  [][(last'.op = "perform" /\ last'.arg[1] = 0) =>
       /\ last'.err = AssertionFailed("id_process != 0")
       /\ particles' = particles
       /\ id_max' = id_max
       /\ act' = act]_vars

\* a perform(0) on an action that holds outgoing particles of a reaction
\* type whose history would be stamped
C1_Witness ==
  /\ last.op = "perform"
  /\ last.arg[1] = 0
  /\ last.err.kind = "assert"
  /\ act[last.a].outgoing_particles # << >>
  /\ act[last.a].process_type \notin {"Wall", "None"}

\* C2: perform keeps the particle identities in the collection, giving
\* them the outgoing momentum and position, exactly when the reaction type
\* is Elastic or Wall; for every other type the incoming identities leave
\* the collection and the outgoing particles enter it under new ids.
C2_InPlaceIffElasticOrWall ==
  [][(last'.op = "perform" /\ last'.ret.committed) =>
       LET A == act[last'.a]
           inc == A.incoming_particles
           out == A.outgoing_particles
       IN IF A.process_type \in {"Elastic", "Wall"}
          THEN /\ IdsIn(particles') = IdsIn(particles)
               /\ id_max' = id_max
               /\ \A i \in DOMAIN inc :
                    inc[i].id \in IdsIn(particles) =>
                      \E q \in particles' :
                        /\ q.id = inc[i].id
                        /\ q.mom = out[i].mom
                        /\ q.pos = out[i].pos
          ELSE /\ IdsIn(particles')
                    = (IdsIn(particles) \ IdsOf(inc))
                        \cup ((id_max + 1)..(id_max + Len(out)))
               /\ \A j \in DOMAIN out :
                    \E q \in particles' :
                      /\ q.id = id_max + j
                      /\ q.type = out[j].type
                      /\ q.mom = out[j].mom
                      /\ q.pos = out[j].pos]_vars

\* both kinds of commit have happened: the fusion was committed by
\* replacement and a wall crossing in place
C2_Witness ==
  /\ act[1].performed
  /\ act[1].process_type = "MultiParticleThreePionsToOmega"
  /\ act[1].outgoing_particles # << >>
  /\ act[2].performed
  /\ act[2].process_type = "Wall"
  /\ \E q \in particles : q.id = 4 /\ q.pos = <<0, 12>>

C4_OnlyPerformMutates ==
  [][last'.op # "perform" =>
       /\ particles' = particles
       /\ id_max' = id_max
       /\ \A b \in ActionIds \ {last'.a} : act'[b] = act[b]
       /\ last'.op \in {"is_valid", "is_pauli_blocked", "get_interaction_point",
                        "get_potential_at_interaction_point", "kinetic_energy_cms",
                        "kinetic_energy_cms(potentials, p_out_types)"}
            => act' = act
       /\ last'.op = "update_incoming"
            => act'[last'.a]
                 = [act[last'.a] EXCEPT !.incoming_particles =
                      act'[last'.a].incoming_particles]
       /\ last'.op \in {"generate_final_state", "sample_2body_phasespace"}
            => act'[last'.a].incoming_particles
                 = act[last'.a].incoming_particles]_vars

\* the fusion's final state was generated after the other action had
\* been committed, and the collection still shows only that commit
C4_Witness ==
  /\ last.op = "generate_final_state"
  /\ last.a = 1
  /\ act[1].outgoing_particles # << >>
  /\ act[2].performed
  /\ particles # InitialParticles

\* C7: check_conservation raises nothing when the two snapshots are equal;
\* when they differ it returns normally exactly for StringSoft and
\* StringHard, and otherwise raises an error that names the photon
\* process if and only if the process id is ID_PROCESS_PHOTON.
C7_ConservationErrors ==
  (Performed /\ last.ret.checked) =>
    LET A == act[last.a]
        photon == RuntimeError(<<"Conservation laws violated in photon process">>)
    IN /\ ~SnapshotsDiffer => last.err = NoError
       /\ SnapshotsDiffer =>
            /\ (last.err = NoError) <=> (A.process_type \in StringTypes)
            /\ A.process_type \notin StringTypes =>
                 /\ last.err.kind = "std::runtime_error"
                 /\ (last.err = photon) <=> (last.arg[1] = ID_PROCESS_PHOTON)

\* a photon-tagged commit whose snapshots differ
C7_Witness ==
  /\ Performed
  /\ last.ret.checked
  /\ SnapshotsDiffer
  /\ last.arg[1] = ID_PROCESS_PHOTON
  /\ last.err.kind = "std::runtime_error"

\* C8: perform runs the conservation check iff neither lattice is
\* attached; with a lattice attached it commits and returns without a
\* conservation error even when the snapshots differ.
C8_CheckIffNoLattice ==
  Performed =>
    LET A == act[last.a]
        attached == A.UB_lat \/ A.UI3_lat
        fatal == SnapshotsDiffer /\ A.process_type \notin StringTypes
    IN /\ last.ret.checked <=> ~attached
       /\ attached => last.err = NoError
       /\ (~attached /\ fatal) => last.err.kind = "std::runtime_error"

\* a commit with differing snapshots that passed because only the isospin
\* lattice is attached
C8_Witness ==
  /\ Performed
  /\ SnapshotsDiffer
  /\ act[last.a].process_type \notin StringTypes
  /\ act[last.a].UI3_lat
  /\ ~act[last.a].UB_lat
  /\ last.err = NoError

----------------------------------------------------------------------------
(* The commit phase of the driver: the prepared actions are validated and  *)
(* committed one after another in a fixed order; an action found invalid   *)
(* is dropped.  cursor holds the order, the position in it (0 while the    *)
(* actions are still being prepared) and what became of each action.       *)

Orders == {<<1, 2>>, <<2, 1>>}

BatchInit ==
  /\ particles = InitialParticles
  /\ id_max = Cardinality(InitialParticles)
  /\ \E cfg \in LatticeConfigs, pv \in PreparedChannels :
       act = [a \in ActionIds |->
                IF a = 1
                THEN AddReactions(Construct(Multi, <<1, 2, 3>>, a, cfg), pv)
                ELSE Construct(Other, <<2, 4>>, a, cfg)]
  /\ last = Called("construct", 0, << >>, NoError, << >>)
  /\ \E order \in Orders :
       cursor = [order |-> order, at |-> 0,
                 report |-> [a \in ActionIds |-> "pending"]]
  /\ angles = NewAngles

BatchPrepare(a) ==
  /\ cursor.at = 0
  /\ CallGenerateFinalState(a) \/ CallSetFinalState(a)

BatchStart ==
  /\ cursor.at = 0
  /\ cursor' = [cursor EXCEPT !.at = 1]
  /\ last' = Called("start", 0, << >>, NoError, << >>)
  /\ UNCHANGED <<particles, id_max, act, angles>>

BatchValidate ==
  /\ cursor.at \in DOMAIN cursor.order
  /\ LET a == cursor.order[cursor.at]
         valid == ActionIsValid(act[a], particles)
     IN /\ cursor.report[a] = "pending"
        /\ last' = Called("is_valid", a, << >>, NoError, valid)
        /\ cursor' = IF valid THEN [cursor EXCEPT !.report[a] = "valid"]
                     ELSE [cursor EXCEPT !.report[a] = "dropped", !.at = @ + 1]
  /\ UNCHANGED <<particles, id_max, act, angles>>

BatchCommit ==
  /\ cursor.at \in DOMAIN cursor.order
  /\ LET a == cursor.order[cursor.at] IN
     /\ cursor.report[a] = "valid"
     /\ CanCommit(act[a])
     /\ \E id_process \in ProcessIds \ {0} :
          LET o == ActionPerform(act[a], particles, id_max, id_process) IN
          /\ act' = [act EXCEPT ![a] = o.act]
          /\ particles' = o.particles
          /\ id_max' = o.id_max
          /\ last' = Called("perform", a, <<id_process>>, o.err,
                            [committed |-> o.committed, checked |-> o.checked])
          /\ cursor' = [cursor EXCEPT
                          !.report[a] = "performed",
                          !.at = IF o.err = NoError THEN @ + 1
                                 ELSE Len(cursor.order) + 1]
  /\ UNCHANGED angles

BatchNext ==
  \/ \E a \in ActionIds : BatchPrepare(a)
  \/ BatchStart
  \/ BatchValidate
  \/ BatchCommit

SpecBatch == BatchInit /\ [][BatchNext]_vars

----------------------------------------------------------------------------
(* Claims about validity in the commit phase, checked under SpecBatch *)

SharesIncoming(a, b) ==
  IdsOf(act[a].incoming_particles) \cap IdsOf(act[b].incoming_particles) # {}

\* every incoming copy of a still matches an entry of the collection,
\* identity and state
StillMatches(a) ==
  \A i \in DOMAIN act[a].incoming_particles :
    \E q \in particles :
      /\ q.id = act[a].incoming_particles[i].id
      /\ q = act[a].incoming_particles[i]

ValidityReported ==
  (last.op = "is_valid" /\ cursor.at > 0) => (last.ret <=> StillMatches(last.a))

----------------------------------------------------------------------------
(* The Pauli veto on its own: the reaction type and the outgoing species   *)
(* are drawn at the start, every call draws the densities the estimator    *)
(* reports and the uniform values.                                         *)

RECURSIVE SpeciesLists(_)
SpeciesLists(n) ==
  IF n = 0 THEN {<< >>}
  ELSE SpeciesLists(n - 1)
         \cup {Append(l, t) : l \in {m \in SpeciesLists(n - 1) : Len(m) = n - 1},
                              t \in {"p", "n", "pi0"}}

PauliInit ==
  /\ particles = InitialParticles
  /\ id_max = Cardinality(InitialParticles)
  /\ \E ptype \in {"Wall", "Elastic", "TwoToTwo"}, types \in SpeciesLists(MaxOut) :
       act = [a \in ActionIds |->
                [Construct(Other, <<2, 4>>, a, CHOOSE c \in LatticeConfigs : ~c.pot)
                   EXCEPT !.process_type = ptype,
                          !.outgoing_particles =
                            [i \in DOMAIN types |->
                               Produced(types[i], <<Mass(types[i]), 0>>, <<0, 6>>)],
                          !.final_state = "generated"]]
  /\ last = Called("construct", 0, << >>, NoError, << >>)
  /\ cursor = 0
  /\ angles = NewAngles

\* the veto is asked once per prepared final state
PauliQuery(a) ==
  /\ last.op = "construct"
  /\ \E dens \in [DOMAIN act[a].outgoing_particles -> 0..DenMax],
        draws \in [DOMAIN act[a].outgoing_particles -> 0..(DenMax - 1)] :
       last' = Called("is_pauli_blocked", a, <<dens, draws>>, NoError,
                      ActionIsPauliBlocked(act[a], dens, draws))
  /\ UNCHANGED <<particles, id_max, act, cursor, angles>>

PauliNext == \E a \in ActionIds : PauliQuery(a)

SpecPauli == PauliInit /\ [][PauliNext]_vars

\* the outgoing baryons at or before position i: the draw baryon i gets
BaryonRank(out, i) == Cardinality({j \in 1..i : IsBaryon(out[j].type)})

\* C6: is_pauli_blocked is true iff the type is not Wall and some outgoing
\* baryon has a density above its draw, drawing once per baryon in order;
\* it queries the baryons up to the first one blocked and nothing else.
\* Density 0 never blocks, density 1 blocks whenever there is a baryon,
\* and a Wall action is never blocked.
C6_PauliBlocked ==
  last.op = "is_pauli_blocked" =>
    LET A == act[last.a]
        out == A.outgoing_particles
        dens == last.arg[1]
        draws == last.arg[2]
        Hit(i) == IsBaryon(out[i].type) /\ dens[i] > draws[BaryonRank(out, i)]
        hits == {i \in DOMAIN out : Hit(i)}
        scanned == {i \in DOMAIN out :
                      /\ IsBaryon(out[i].type)
                      /\ \A j \in hits : i <= j}
        queried == {last.ret.queried[k] : k \in DOMAIN last.ret.queried}
    IN /\ last.ret.blocked <=> (A.process_type # "Wall" /\ hits # {})
       /\ queried = IF A.process_type = "Wall" THEN {} ELSE scanned
       /\ Len(last.ret.queried) = Cardinality(queried)
       /\ (\A i \in DOMAIN out : dens[i] = 0) => ~last.ret.blocked
       /\ (/\ \A i \in DOMAIN out : dens[i] = DenMax
           /\ \E i \in DOMAIN out : IsBaryon(out[i].type)
           /\ A.process_type # "Wall") => last.ret.blocked
       /\ A.process_type = "Wall" => ~last.ret.blocked

\* a scan that passed a meson unqueried, found the first baryon free and
\* was blocked by one after it
C6_Witness ==
  /\ last.op = "is_pauli_blocked"
  /\ last.ret.blocked
  /\ Len(last.ret.queried) = MaxOut
  /\ last.arg[1][1] <= last.arg[2][1]
  /\ act[last.a].process_type = "Elastic"

----------------------------------------------------------------------------
(* The branch list of a ScatterActionMulti on its own *)

MultiInit ==
  /\ particles = InitialParticles
  /\ id_max = Cardinality(InitialParticles)
  /\ act = [a \in ActionIds |->
              Construct(Multi, <<1, 2, 3>>, a, CHOOSE c \in LatticeConfigs : ~c.pot)]
  /\ last = Called("construct", 0, << >>, NoError, << >>)
  /\ cursor = 0
  /\ angles = NewAngles

MultiNext ==
  \/ CallAddReaction(1)
  \/ CallAddReactions(1)
  \/ CallGenerateFinalState(1)

SpecMulti == MultiInit /\ [][MultiNext]_vars

RECURSIVE SumWeights(_)
SumWeights(list) ==
  IF list = << >> THEN 0 ELSE Head(list).weight + SumWeights(Tail(list))

TotalIsSum ==
  \A a \in ActionIds :
    /\ GetTotalWeight(act[a]) = SumWeights(act[a].reaction_channels)
    /\ \A i \in DOMAIN act[a].reaction_channels :
         GetTotalWeight(act[a]) >= act[a].reaction_channels[i].weight

PartialIsChosen ==
  (last.op = "generate_final_state" /\ GetTotalWeight(act[last.a]) > 0) =>
    LET A == act[last.a]
        list == A.reaction_channels
        r == last.arg[1]
    IN /\ \E k \in DOMAIN list :
            /\ SumWeights(SubSeq(list, 1, k)) > r
            /\ SumWeights(SubSeq(list, 1, k - 1)) <= r
            /\ GetPartialWeight(A) = list[k].weight
       /\ GetPartialWeight(A) <= GetTotalWeight(A)

\* C10: after any add_reaction / add_reactions calls the total weight is
\* the sum of the weights of the branches in the list and at least every
\* single weight; branches are appended and never removed; after
\* generate_final_state the partial weight is the chosen branch's own
\* weight, hence at most the total.
C10_TotalWeight ==
  /\ [](TotalIsSum /\ PartialIsChosen)
  /\ [][\A a \in ActionIds :
          /\ Len(act'[a].reaction_channels) >= Len(act[a].reaction_channels)
          /\ SubSeq(act'[a].reaction_channels, 1, Len(act[a].reaction_channels))
               = act[a].reaction_channels]_vars

\* the second of two branches of different weight was chosen
C10_Witness ==
  /\ last.op = "generate_final_state"
  /\ Len(act[1].reaction_channels) = 2
  /\ act[1].reaction_channels[1].weight = 1
  /\ act[1].reaction_channels[2].weight = 2
  /\ GetPartialWeight(act[1]) = 2
  /\ GetTotalWeight(act[1]) = 3

----------------------------------------------------------------------------
(* An Angles object on its own; a caller that catches what set_costheta    *)
(* throws keeps using the object.                                          *)

AnglesInit ==
  /\ particles = InitialParticles
  /\ id_max = Cardinality(InitialParticles)
  /\ act = [a \in ActionIds |->
              Construct(Multi, <<1, 2, 3>>, a, CHOOSE c \in LatticeConfigs : ~c.pot)]
  /\ last = Called("construct", 0, << >>, NoError, << >>)
  /\ cursor = 0
  /\ angles = NewAngles

CallDistributeIsotropically ==
  /\ \E u1 \in 0..(TwoPi - 1), u2 \in 0..(CosOne - 1) :
       /\ angles' = DistributeIsotropically(angles, u1, u2)
       /\ last' = Called("distribute_isotropically", 0, <<u1, u2>>, NoError, << >>)
  /\ UNCHANGED <<particles, id_max, act, cursor>>

CallSetPhi ==
  /\ \E newphi \in (0 - MaxAngle)..MaxAngle :
       /\ angles' = SetPhi(angles, newphi)
       /\ last' = Called("set_phi", 0, <<newphi>>, NoError, << >>)
  /\ UNCHANGED <<particles, id_max, act, cursor>>

CallSetCostheta ==
  /\ \E newcos \in (0 - MaxCos)..MaxCos :
       LET o == SetCostheta(angles, newcos) IN
       /\ angles' = o.angles
       /\ last' = Called("set_costheta", 0, <<newcos>>, o.err, << >>)
  /\ UNCHANGED <<particles, id_max, act, cursor>>

CallSetTheta ==
  /\ \E newtheta \in (0 - MaxAngle)..MaxAngle :
       LET o == SetTheta(angles, newtheta) IN
       /\ angles' = o.angles
       /\ last' = Called("set_theta", 0, <<newtheta>>, o.err, << >>)
  /\ UNCHANGED <<particles, id_max, act, cursor>>

AnglesNext ==
  \/ CallDistributeIsotropically
  \/ CallSetPhi
  \/ CallSetCostheta
  \/ CallSetTheta

SpecAngles == AnglesInit /\ [][AnglesNext]_vars

AnglesInRange ==
  /\ 0 <= angles.phi /\ angles.phi < TwoPi
  /\ 0 - CosOne <= angles.costheta /\ angles.costheta <= CosOne

\* C18: an Angles object keeps phi in [0, 2 pi) and cos(theta) in [-1, 1]
\* in every reachable state, after any sequence of set_phi, set_costheta,
\* set_theta and distribute_isotropically calls, and a set_costheta call
\* rejected for a value outside [-1, 1] leaves the stored cos(theta)
\* unchanged.
C18_AnglesInRange ==
  /\ []AnglesInRange
  /\ [][(last'.op = "set_costheta" /\ last'.err # NoError)
          => angles'.costheta = angles.costheta]_vars

----------------------------------------------------------------------------
(* Claims about channel selection, checked under SpecMulti *)

\* the branch choose_channel picks for the draw r: the first whose running
\* sum exceeds r
ChosenBranch(list, r) ==
  list[CHOOSE k \in DOMAIN list :
         /\ SumWeights(SubSeq(list, 1, k)) > r
         /\ SumWeights(SubSeq(list, 1, k - 1)) <= r]

\* C11: a total branch weight <= 0 (for instance no branch was added) is a
\* non-fatal "no reaction" outcome: generate_final_state raises no error in
\* that case and leaves the action with an empty outgoing list.
C11_NoReactionIsQuiet ==
  (/\ last.op = "generate_final_state"
   /\ act[last.a].cls = Multi
   /\ GetTotalWeight(act[last.a]) <= 0)
    => (last.err = NoError /\ act[last.a].outgoing_particles = << >>)

\* C12: generate_final_state of a ScatterActionMulti ends in a fatal error
\* whenever the chosen branch's reaction tag is not
\* MultiParticleThreePionsToOmega and whenever the chosen fusion branch does
\* not have exactly one outgoing particle; it completes without error only
\* for the listed tag with exactly one outgoing particle.
C12_MalformedOutcomeIsFatal ==
  (/\ last.op = "generate_final_state"
   /\ act[last.a].cls = Multi
   /\ GetTotalWeight(act[last.a]) > 0)
    => LET b == ChosenBranch(act[last.a].reaction_channels, last.arg[1])
           listed == b.type = "MultiParticleThreePionsToOmega"
       IN /\ last.err = NoError <=> (listed /\ Len(b.particle_types) = 1)
          /\ ~listed => last.err.kind = "InvalidScatterActionMulti"
          /\ (listed /\ Len(b.particle_types) # 1)
               => last.err.kind = "InvalidScatterActionMulti"
          /\ last.err # NoError => act[last.a].final_state = "failed"

\* a fusion branch with two outgoing particles was chosen and refused
C12_Witness ==
  /\ last.op = "generate_final_state"
  /\ last.err.kind = "InvalidScatterActionMulti"
  /\ act[last.a].process_type = "MultiParticleThreePionsToOmega"
  /\ Len(act[last.a].outgoing_particles) = 2

----------------------------------------------------------------------------
(* Three-pion fusion: the incoming particles are drawn at the start, in    *)
(* every order, at rest in the computational frame or moving through it.   *)

FusionSpecies == {"pi+", "pi-", "pi0", "p"}

\* the kinematics of incoming particle i: all at one time with total
\* momentum <<9, 0>> for three, or spread in time with total <<13, 5>>
Kinematics ==
  {[mom |-> [i \in 1..MaxIncoming |-> <<3, (i % 3) - 1>>],
    pos |-> [i \in 1..MaxIncoming |-> <<0, 6 * (i - 1)>>]],
   [mom |-> [i \in 1..MaxIncoming |-> IF i % 3 = 0 THEN <<3, 0 - 1>> ELSE <<5, 3>>],
    pos |-> [i \in 1..MaxIncoming |-> <<3 * (i - 1), IF i = 1 THEN 0 ELSE 3>>]]}

RECURSIVE IncomingLists(_)
IncomingLists(n) ==
  IF n = 0 THEN {<< >>}
  ELSE IncomingLists(n - 1)
         \cup {Append(l, t) : l \in {m \in IncomingLists(n - 1) : Len(m) = n - 1},
                              t \in FusionSpecies}

FusionInit ==
  /\ \E types \in IncomingLists(MaxIncoming) \ {<< >>}, k \in Kinematics :
       LET in_part == [i \in DOMAIN types |-> Particle(i, types[i], k.mom[i], k.pos[i])]
       IN /\ particles = {in_part[i] : i \in DOMAIN in_part}
          /\ id_max = Len(in_part)
          /\ act = [a \in ActionIds |-> NewAction(Multi, in_part, a, FALSE, FALSE, FALSE)]
  /\ last = Called("construct", 0, << >>, NoError, << >>)
  /\ cursor = 0
  /\ angles = NewAngles

CallAddPossibleReactions(a) ==
  /\ act[a].cls = Multi
  /\ ~act[a].performed
  /\ Len(act[a].reaction_channels) < MaxChannels
  /\ \E three_to_one \in BOOLEAN, type_omega \in BOOLEAN, prob \in {1, MaxWeight} :
       /\ act' = [act EXCEPT ![a] =
                    AddPossibleReactions(@, three_to_one, type_omega, prob)]
       /\ last' = Called("add_possible_reactions", a,
                         <<three_to_one, type_omega, prob>>, NoError, << >>)
  /\ UNCHANGED <<particles, id_max, cursor, angles>>

FusionNext ==
  \/ CallAddPossibleReactions(1)
  \/ CallGenerateFinalState(1)

SpecFusion == FusionInit /\ [][FusionNext]_vars

\* exactly three incoming particles, all pions, pairwise distinct species
Eligible(inc) ==
  /\ Len(inc) = 3
  /\ \A i \in DOMAIN inc : inc[i].type \in {"pi+", "pi-", "pi0"}
  /\ Cardinality({inc[i].type : i \in DOMAIN inc}) = 3

\* C13: add_possible_reactions adds a three-pion fusion branch only when
\* the action has exactly three incoming particles that are all pions of
\* pairwise distinct species, three_to_one is enabled and the omega type
\* exists; for every other incoming set, in any order, it adds no branch
\* and leaves the channel list and the total weight unchanged.
C13_FusionOnlyForThreeDifferentPions ==
  [][\A a \in ActionIds :
       (last'.op = "add_possible_reactions" /\ last'.a = a) =>
         LET inc == act[a].incoming_particles
             list == act[a].reaction_channels
         IN /\ act'[a].reaction_channels # list =>
                 /\ Eligible(inc) /\ last'.arg[1] /\ last'.arg[2]
                 /\ Len(act'[a].reaction_channels) = Len(list) + 1
                 /\ SubSeq(act'[a].reaction_channels, 1, Len(list)) = list
                 /\ act'[a].reaction_channels[Len(list) + 1].type
                      = "MultiParticleThreePionsToOmega"
                 /\ act'[a].reaction_channels[Len(list) + 1].particle_types
                      = <<"omega">>
            /\ (~Eligible(inc) \/ ~last'.arg[1] \/ ~last'.arg[2]) =>
                 /\ act'[a].reaction_channels = list
                 /\ GetTotalWeight(act'[a]) = GetTotalWeight(act[a])]_vars

\* three pions of which the first and the last are of one species were
\* offered with fusion enabled, and no branch was added
C13_Witness ==
  /\ last.op = "add_possible_reactions"
  /\ last.arg[1] /\ last.arg[2] /\ last.arg[3] > 0
  /\ TypesOf(act[last.a].incoming_particles) = <<"pi+", "pi0", "pi+">>
  /\ act[last.a].reaction_channels = << >>

\* C14: after a successful three-pion fusion generate_final_state with
\* incoming total four-momentum P the action has exactly one outgoing
\* particle; before the boost it has energy |P| and zero three-momentum,
\* after the boost its four-momentum is exactly P, and its four-position is
\* the arithmetic mean of the incoming four-positions.
C14_FusedParticle ==
  [][\A a \in ActionIds :
       (last'.op = "generate_final_state" /\ last'.a = a /\ last'.err = NoError) =>
         LET inc == act[a].incoming_particles
             P == SumMomenta(inc)
             X == SumPositions(inc)
             b == ChosenBranch(act[a].reaction_channels, last'.arg[1])
             rest == Annihilation(
                       [act[a] EXCEPT
                          !.process_type = b.type,
                          !.outgoing_particles =
                            [i \in DOMAIN b.particle_types |->
                               BareParticle(b.particle_types[i])]]).act.outgoing_particles
             out == act'[a].outgoing_particles
         IN /\ Len(out) = 1
            /\ Len(rest) = 1
            /\ rest[1].mom[2] = 0
            /\ rest[1].mom[1] >= 0
            /\ rest[1].mom[1] * rest[1].mom[1] = P[1] * P[1] - P[2] * P[2]
            /\ out[1].mom = P
            /\ Len(inc) * out[1].pos[1] = X[1]
            /\ Len(inc) * out[1].pos[2] = X[2]]_vars

\* three pions moving through the computational frame were fused
C14_Witness ==
  /\ last.op = "generate_final_state"
  /\ last.err = NoError
  /\ Len(act[last.a].outgoing_particles) = 1
  /\ act[last.a].outgoing_particles[1].mom = <<13, 5>>
  /\ act[last.a].outgoing_particles[1].pos = <<3, 2>>

----------------------------------------------------------------------------
(* The two-body sampler and the energy it starts from: a two-body action   *)
(* whose incoming energy, attached potentials and outgoing species are     *)
(* drawn at the start.                                                     *)

OutPairs == {<<"n", "pi0">>, <<"omega", "pi0">>, <<"pi0", "pi0">>}

SamplerInit ==
  /\ \E e \in 0..MaxEnergy, pot \in BOOLEAN, ub \in BOOLEAN, ui3 \in BOOLEAN,
        types \in OutPairs :
       LET in_part == <<Particle(1, "pi-", <<e, 1>>, <<0, 6>>),
                        Particle(2, "p", <<4, 0 - 1>>, <<0, 6>>)>>
       IN /\ particles = {in_part[i] : i \in DOMAIN in_part}
          /\ id_max = Len(in_part)
          /\ act = [a \in ActionIds |->
                      [NewAction(Other, in_part, a, pot, ub, ui3)
                         EXCEPT !.process_type = "TwoToTwo",
                                !.outgoing_particles =
                                  [i \in DOMAIN types |-> BareParticle(types[i])]]]
  /\ last = Called("construct", 0, << >>, NoError, << >>)
  /\ cursor = 0
  /\ angles = NewAngles

CallSampleMasses(a) ==
  /\ Len(act[a].outgoing_particles) = 2
  /\ IF SampleMassesError(act[a]) # NoError
     THEN last' = Called("sample_masses", a, << >>, SampleMassesError(act[a]), << >>)
     ELSE \E masses \in SampledMasses(act[a]) :
            last' = Called("sample_masses", a, << >>, NoError, masses)
  /\ UNCHANGED <<particles, id_max, act, cursor, angles>>

CallSampleAngles(a) ==
  /\ Len(act[a].outgoing_particles) = 2
  /\ \E m_a \in {1, MaxMass}, m_b \in {1, MaxMass}, costheta \in {0 - 1, 1} :
       /\ act' = [act EXCEPT ![a] = SampleAngles(@, <<m_a, m_b>>, costheta)]
       /\ last' = Called("sample_angles", a, <<<<m_a, m_b>>, costheta>>, NoError,
                         [warned |-> SampleAnglesWarns(act[a], <<m_a, m_b>>)])
  /\ UNCHANGED <<particles, id_max, cursor, angles>>

SamplerNext ==
  \/ CallSampleMasses(1)
  \/ CallSampleAngles(1)
  \/ CallSample2BodyPhasespace(1)
  \/ CallKineticEnergyCms(1)
  \/ CallKineticEnergyCmsWith(1)

SpecSampler == SamplerInit /\ [][SamplerNext]_vars

Threshold(A) ==
  MinMassKinematic(A.outgoing_particles[1].type)
    + MinMassKinematic(A.outgoing_particles[2].type)

NotEnoughEnergy == last.err.kind = "InvalidResonanceFormation"

\* C15: sample_masses fails with an insufficient-energy error iff the CM
\* kinetic energy is strictly below the sum of the two outgoing species'
\* kinematic minimum masses (an energy exactly at the threshold does not
\* fail); when it fails inside sample_2body_phasespace, angle sampling is
\* not reached and neither outgoing four-momentum is modified.
C15_NotEnoughEnergy ==
  /\ [](last.op \in {"sample_masses", "sample_2body_phasespace"} =>
          /\ NotEnoughEnergy <=> KineticEnergyCms(act[last.a]) < Threshold(act[last.a])
          /\ ~NotEnoughEnergy => last.err = NoError)
  /\ [][(last'.op = "sample_2body_phasespace" /\ last'.err # NoError) =>
          act'[last'.a].outgoing_particles = act[last'.a].outgoing_particles]_vars

\* sample_2body_phasespace failed on a pair that already carried momenta,
\* and they are still there
C15_Witness ==
  /\ last.op = "sample_2body_phasespace"
  /\ NotEnoughEnergy
  /\ KineticEnergyCms(act[last.a]) = Threshold(act[last.a]) - 1
  /\ act[last.a].outgoing_particles[1].mom # Unassigned
  /\ act[last.a].outgoing_particles[1].mom[2] # 0

\* C16: for every angle draw and every pair of masses sample_angles gives
\* the two outgoing particles the given masses and exactly opposite
\* three-momenta, and it completes without an error even when the two-body
\* momentum is not positive (a warning only).
C16_OppositeMomenta ==
  /\ last.op = "sample_angles" =>
       LET out == act[last.a].outgoing_particles
           masses == last.arg[1]
           OnShell(p, m) ==
             /\ p.mom[1] >= m
             /\ p.mom[1] * p.mom[1] <= m * m + p.mom[2] * p.mom[2]
             /\ (p.mom[1] + 1) * (p.mom[1] + 1) > m * m + p.mom[2] * p.mom[2]
       IN /\ last.err = NoError
          /\ Len(out) = 2
          /\ out[1].mom[2] + out[2].mom[2] = 0
          /\ OnShell(out[1], masses[1])
          /\ OnShell(out[2], masses[2])
          /\ last.ret.warned =>
               out[1].mom = <<masses[1], 0>> /\ out[2].mom = <<masses[2], 0>>
  /\ (last.op = "sample_2body_phasespace" /\ last.err = NoError) =>
       LET out == act[last.a].outgoing_particles
       IN out[1].mom[2] + out[2].mom[2] = 0

\* sample_angles was given masses the energy cannot carry and left a pair
\* at rest
C16_Witness ==
  /\ last.op = "sample_angles"
  /\ last.ret.warned
  /\ last.err = NoError
  /\ act[last.a].outgoing_particles[2].mom = <<MaxMass, 0>>

IsEnergyQuery ==
  last.op \in {"kinetic_energy_cms", "kinetic_energy_cms(potentials, p_out_types)"}

====
